---- MODULE Spec2Model ----
(***************************************************************************)
(* Model of the task storage layer (src/app/storage.py) and of the        *)
(* callers in src/app/main.py that drive it.  The two SQLite tables are    *)
(* functions from row id to row; timestamps are stored as ISO-8601 text    *)
(* and compared as text, as the SQL does.  last is the call made last and  *)
(* ret the value it returned.                                              *)
(***************************************************************************)
EXTENDS Integers, Sequences, FiniteSets, TLC

VARIABLES tasks, subtasks, task_seq, subtask_seq, clock, last, ret

vars == <<tasks, subtasks, task_seq, subtask_seq, clock, last, ret>>

(***************************************************************************)
(* Bounds of the model.                                                    *)
(***************************************************************************)
\* number of task rows ever inserted
MaxTasks == 2
\* number of subtask rows ever inserted
MaxSubtasks == 2
\* last instant the wall clock reaches, in ticks
MaxTime == 1
\* clock ticks per second: an instant with a non-zero remainder has a
\* fractional part in its ISO text, a whole second has none
TicksPerSec == 2

(***************************************************************************)
(* Optional values: Python None / SQL NULL, and a present value.           *)
(***************************************************************************)
None == <<>>
Some(v) == <<v>>
NULL == <<>>

\* instants the clock and the callers can name
Times == 0..MaxTime
\* "a", "b" as sequences of character codes
Titles == {<<97>>}
SubtaskTitles == {<<115>>}
Notes == {<<110>>}
OptBool == {None, Some(TRUE), Some(FALSE)}
OptTime == {None} \cup {Some(t) : t \in Times}
\* identifiers a caller may pass: an id names no row before its row is
\* inserted and after its row is deleted
TaskIds == 1..MaxTasks
SubtaskIds == 1..MaxSubtasks

(***************************************************************************)
(* datetime.isoformat() and datetime.fromisoformat() for naive datetimes.  *)
(* An instant is a number of ticks since midnight of the model's day.      *)
(***************************************************************************)
Digit(d) == 48 + d
TwoDigits(n) == <<Digit((n \div 10) % 10), Digit(n % 10)>>
SixDigits(n) ==
    <<Digit((n \div 100000) % 10), Digit((n \div 10000) % 10), Digit((n \div 1000) % 10),
      Digit((n \div 100) % 10), Digit((n \div 10) % 10), Digit(n % 10)>>
\* "2024-01-01T"
DatePrefix == <<50, 48, 50, 52, 45, 48, 49, 45, 48, 49, 84>>
MicrosPerTick == 1000000 \div TicksPerSec

isoformat(t) ==
    LET sec == t \div TicksPerSec
        us == (t % TicksPerSec) * MicrosPerTick
        hms == TwoDigits(sec \div 3600) \o <<58>> \o TwoDigits((sec \div 60) % 60)
                 \o <<58>> \o TwoDigits(sec % 60)
    IN  DatePrefix \o hms \o (IF us = 0 THEN <<>> ELSE <<46>> \o SixDigits(us))

\* the number written by the decimal digits s[from..to]
RECURSIVE ParseInt(_, _, _)
ParseInt(s, from, to) ==
    IF to < from THEN 0 ELSE 10 * ParseInt(s, from, to - 1) + (s[to] - 48)

fromisoformat(s) ==
    LET hh == ParseInt(s, 12, 13)
        mm == ParseInt(s, 15, 16)
        ss == ParseInt(s, 18, 19)
        us == IF Len(s) > 19 THEN ParseInt(s, 21, 26) ELSE 0
    IN  (hh * 3600 + mm * 60 + ss) * TicksPerSec + us \div MicrosPerTick

\* _now(): the wall clock as ISO text
_now == isoformat(clock)

(***************************************************************************)
(* Text comparison of SQLite's BINARY collation: bytewise, and a proper    *)
(* prefix sorts first.                                                     *)
(***************************************************************************)
\* a and b agree before position i: does a sort before b
RECURSIVE TextLtFrom(_, _, _)
TextLtFrom(a, b, i) ==
    IF i > Len(b) THEN FALSE
    ELSE IF i > Len(a) THEN TRUE
    ELSE IF a[i] # b[i] THEN a[i] < b[i]
    ELSE TextLtFrom(a, b, i + 1)
TextLt(a, b) == TextLtFrom(a, b, 1)
TextLeq(a, b) == a = b \/ TextLt(a, b)

(***************************************************************************)
(* Rows to dataclasses.                                                    *)
(***************************************************************************)
_row_to_task(row) ==
    [id |-> row.id,
     title |-> row.title,
     is_done |-> row.is_done # 0,
     created_at |-> fromisoformat(row.created_at),
     updated_at |-> fromisoformat(row.updated_at),
     reminder_datetime |->
         IF row.reminder_datetime # NULL /\ row.reminder_datetime[1] # <<>>
         THEN Some(fromisoformat(row.reminder_datetime[1])) ELSE None,
     note |-> row.note]

_row_to_subtask(row) ==
    [id |-> row.id,
     task_id |-> row.task_id,
     title |-> row.title,
     is_done |-> row.is_done # 0,
     created_at |-> fromisoformat(row.created_at),
     updated_at |-> fromisoformat(row.updated_at)]

\* the table without the rows whose id is in ids
DeleteRows(table, ids) == [i \in (DOMAIN table) \ ids |-> table[i]]
\* the table with one more row
InsertRow(table, row) == [i \in (DOMAIN table) \cup {row.id} |-> IF i = row.id THEN row ELSE table[i]]

(***************************************************************************)
(* ORDER BY over a full table scan: rows are visited in rowid order and    *)
(* the sort keeps that order among rows with equal keys.                   *)
(***************************************************************************)
RECURSIVE OrderByAsc(_, _)
OrderByAsc(ids, key) ==
    IF ids = {} THEN <<>>
    ELSE LET first == CHOOSE i \in ids : \A j \in ids \ {i} :
                          TextLt(key[i], key[j]) \/ (key[i] = key[j] /\ i < j)
         IN  <<first>> \o OrderByAsc(ids \ {first}, key)

RECURSIVE OrderByDesc(_, _)
OrderByDesc(ids, key) ==
    IF ids = {} THEN <<>>
    ELSE LET first == CHOOSE i \in ids : \A j \in ids \ {i} :
                          TextLt(key[j], key[i]) \/ (key[i] = key[j] /\ i < j)
         IN  <<first>> \o OrderByDesc(ids \ {first}, key)

(***************************************************************************)
(* str.strip(): the text without its leading and trailing white space.     *)
(***************************************************************************)
\* the characters str.isspace() holds for: the ASCII white space, the
\* separators FS GS RS US, NEL, the no-break space and the Unicode spaces
IsSpace(c) ==
    c \in {9, 10, 11, 12, 13, 28, 29, 30, 31, 32, 133, 160, 5760}
            \cup (8192..8202) \cup {8232, 8233, 8239, 8287, 12288}
RECURSIVE lstrip(_)
lstrip(s) == IF s # <<>> /\ IsSpace(Head(s)) THEN lstrip(Tail(s)) ELSE s
RECURSIVE rstrip(_)
rstrip(s) == IF s # <<>> /\ IsSpace(s[Len(s)]) THEN rstrip(SubSeq(s, 1, Len(s) - 1)) ELSE s
strip(s) == rstrip(lstrip(s))

Init ==
    /\ tasks = <<>>
    /\ subtasks = <<>>
    /\ task_seq = 0
    /\ subtask_seq = 0
    /\ clock = 0
    /\ last = [op |-> "init_db"]
    /\ ret = [kind |-> "None"]

\* init_db that drops the tables before it creates them
init_db_recreating ==
    /\ tasks' = <<>>
    /\ subtasks' = <<>>
    /\ task_seq' = 0
    /\ subtask_seq' = 0
    /\ last' = [op |-> "init_db"]
    /\ ret' = [kind |-> "None"]
    /\ UNCHANGED clock

\* init_db on a database file that init_db has set up before, as at every
\* start of the program: both tables exist, so each CREATE TABLE IF NOT
\* EXISTS does nothing, and the commit has nothing to write
init_db ==
    /\ last' = [op |-> "init_db"]
    /\ ret' = [kind |-> "None"]
    /\ UNCHANGED <<tasks, subtasks, task_seq, subtask_seq, clock>>

\* the wall clock advances between calls
Tick ==
    /\ clock < MaxTime
    /\ clock' = clock + 1
    /\ last' = [op |-> "tick"]
    /\ ret' = [kind |-> "None"]
    /\ UNCHANGED <<tasks, subtasks, task_seq, subtask_seq>>

\* INTEGER PRIMARY KEY without AUTOINCREMENT: the id after the largest id
\* that is stored now
lastrowid_after_largest_stored ==
    IF DOMAIN tasks = {} THEN 1
    ELSE (CHOOSE i \in DOMAIN tasks : \A j \in DOMAIN tasks : j <= i) + 1

\* id INTEGER PRIMARY KEY AUTOINCREMENT: the id after the largest id the
\* table has ever held, which task_seq records
lastrowid == task_seq + 1

\* create_task that trims the title before it stores it
create_task_trimmed(title, reminder_datetime, note) ==
    LET created_at == _now
        reminder_value == IF reminder_datetime # None THEN Some(isoformat(reminder_datetime[1])) ELSE NULL
        task_id == lastrowid
        row == [id |-> task_id, title |-> strip(title), is_done |-> 0,
                created_at |-> created_at, updated_at |-> created_at,
                reminder_datetime |-> reminder_value, note |-> note]
    IN  /\ task_seq < MaxTasks
        /\ tasks' = InsertRow(tasks, row)
        /\ task_seq' = task_id
        /\ ret' = [kind |-> "Task", task |-> _row_to_task(tasks'[task_id])]
        /\ last' = [op |-> "create_task", title |-> title,
                    reminder_datetime |-> reminder_datetime, note |-> note]
        /\ UNCHANGED <<subtasks, subtask_seq, clock>>

create_task(title, reminder_datetime, note) ==
    LET created_at == _now
        reminder_value == IF reminder_datetime # None THEN Some(isoformat(reminder_datetime[1])) ELSE NULL
        task_id == lastrowid
        row == [id |-> task_id, title |-> title, is_done |-> 0,
                created_at |-> created_at, updated_at |-> created_at,
                reminder_datetime |-> reminder_value, note |-> note]
    IN  /\ task_seq < MaxTasks
        /\ tasks' = InsertRow(tasks, row)
        /\ task_seq' = task_id
        /\ ret' = [kind |-> "Task", task |-> _row_to_task(tasks'[task_id])]
        /\ last' = [op |-> "create_task", title |-> title,
                    reminder_datetime |-> reminder_datetime, note |-> note]
        /\ UNCHANGED <<subtasks, subtask_seq, clock>>

\* get_conn: what is stored once the with block is left. The finally
\* clause commits what the block has written, whether the block ended
\* normally or raised; there is no rollback.
get_conn(before, written, raised) == written

\* create_task when the read-back SELECT after the INSERT raises
create_task_interrupted(title, reminder_datetime, note) ==
    LET created_at == _now
        reminder_value == IF reminder_datetime # None THEN Some(isoformat(reminder_datetime[1])) ELSE NULL
        task_id == lastrowid
        row == [id |-> task_id, title |-> title, is_done |-> 0,
                created_at |-> created_at, updated_at |-> created_at,
                reminder_datetime |-> reminder_value, note |-> note]
    IN  /\ task_seq < MaxTasks
        /\ tasks' = get_conn(tasks, InsertRow(tasks, row), TRUE)
        /\ task_seq' = get_conn(task_seq, task_id, TRUE)
        /\ ret' = [kind |-> "raised"]
        /\ last' = [op |-> "create_task", title |-> title,
                    reminder_datetime |-> reminder_datetime, note |-> note]
        /\ UNCHANGED <<subtasks, subtask_seq, clock>>

\* TaskApp.add_task: the main window creates a task from the text of its
\* entry, trimmed, unless nothing is left of it; it returns nothing
add_task(entry) ==
    LET title == strip(entry)
        created_at == _now
        task_id == lastrowid
        row == [id |-> task_id, title |-> title, is_done |-> 0,
                created_at |-> created_at, updated_at |-> created_at,
                reminder_datetime |-> NULL, note |-> None]
    IN  /\ last' = [op |-> "add_task", entry |-> entry]
        /\ ret' = [kind |-> "None"]
        /\ IF title = <<>>
           THEN UNCHANGED <<tasks, task_seq>>
           ELSE /\ task_seq < MaxTasks
                /\ tasks' = InsertRow(tasks, row)
                /\ task_seq' = task_id
        /\ UNCHANGED <<subtasks, subtask_seq, clock>>

\* what get_task returns: the Task of the row with this id, or None
fetch_task(task_id) ==
    IF task_id \in DOMAIN tasks THEN Some(_row_to_task(tasks[task_id])) ELSE None

\* get_task that falls back on the nearest smaller id: WHERE id <= ?
\* ORDER BY id DESC LIMIT 1
get_task_or_nearest(task_id) ==
    LET ids == {i \in DOMAIN tasks : i <= task_id}
        found == CHOOSE i \in ids : \A j \in ids : j <= i
    IN  /\ ret' = (IF ids = {} THEN [kind |-> "None"]
                   ELSE [kind |-> "Task", task |-> _row_to_task(tasks[found])])
        /\ last' = [op |-> "get_task", task_id |-> task_id]
        /\ UNCHANGED <<tasks, subtasks, task_seq, subtask_seq, clock>>

get_task(task_id) ==
    /\ ret' = (IF fetch_task(task_id) = None THEN [kind |-> "None"]
               ELSE [kind |-> "Task", task |-> fetch_task(task_id)[1]])
    /\ last' = [op |-> "get_task", task_id |-> task_id]
    /\ UNCHANGED <<tasks, subtasks, task_seq, subtask_seq, clock>>

(***************************************************************************)
(* UPDATE ... SET c1 = v1, c2 = v2, ...: the assignments are applied left  *)
(* to right, so when a column is named twice the rightmost one wins.       *)
(***************************************************************************)
RECURSIVE ApplySet(_, _)
ApplySet(row, updates) ==
    IF updates = <<>> THEN row
    ELSE ApplySet([row EXCEPT ![Head(updates)[1]] = Head(updates)[2]], Tail(updates))

\* a SET list that names the note column whether a note was passed or not
task_updates_with_note(title, is_done, reminder_datetime, note) ==
    (IF title # None THEN << <<"title", title[1]>> >> ELSE <<>>)
    \o (IF is_done # None THEN << <<"is_done", IF is_done[1] THEN 1 ELSE 0>> >> ELSE <<>>)
    \o (IF is_done # None /\ is_done[1] THEN << <<"reminder_datetime", NULL>> >> ELSE <<>>)
    \o (IF reminder_datetime # None
        THEN << <<"reminder_datetime", Some(isoformat(reminder_datetime[1]))>> >> ELSE <<>>)
    \o << <<"note", note>> >>

\* the SET list update_task builds from its keyword arguments
task_updates(title, is_done, reminder_datetime, note) ==
    (IF title # None THEN << <<"title", title[1]>> >> ELSE <<>>)
    \o (IF is_done # None THEN << <<"is_done", IF is_done[1] THEN 1 ELSE 0>> >> ELSE <<>>)
    \o (IF is_done # None /\ is_done[1] THEN << <<"reminder_datetime", NULL>> >> ELSE <<>>)
    \o (IF reminder_datetime # None
        THEN << <<"reminder_datetime", Some(isoformat(reminder_datetime[1]))>> >> ELSE <<>>)
    \o (IF note # None THEN << <<"note", note>> >> ELSE <<>>)

\* update_task without the early return for an empty SET list
update_task_call_always_writes(caller, task_id, title, is_done, reminder_datetime, note) ==
    LET task == fetch_task(task_id)
        updates == task_updates(title, is_done, reminder_datetime, note)
    IN  /\ last' = [op |-> caller, task_id |-> task_id, title |-> title, is_done |-> is_done,
                    reminder_datetime |-> reminder_datetime, note |-> note]
        /\ IF task = None
           THEN /\ ret' = [kind |-> "None"]
                /\ tasks' = tasks
           ELSE /\ tasks' = [tasks EXCEPT ![task_id] =
                                ApplySet(@, updates \o << <<"updated_at", _now>> >>)]
                /\ ret' = [kind |-> "Task", task |-> _row_to_task(tasks'[task_id])]
        /\ UNCHANGED <<subtasks, task_seq, subtask_seq, clock>>

\* update_task as called by caller, which is recorded as the operation
update_task_call(caller, task_id, title, is_done, reminder_datetime, note) ==
    LET task == fetch_task(task_id)
        updates == task_updates(title, is_done, reminder_datetime, note)
    IN  /\ last' = [op |-> caller, task_id |-> task_id, title |-> title, is_done |-> is_done,
                    reminder_datetime |-> reminder_datetime, note |-> note]
        /\ IF task = None
           THEN /\ ret' = [kind |-> "None"]
                /\ tasks' = tasks
           ELSE IF updates = <<>>
           THEN /\ ret' = [kind |-> "Task", task |-> task[1]]
                /\ tasks' = tasks
           ELSE /\ tasks' = [tasks EXCEPT ![task_id] =
                                ApplySet(@, updates \o << <<"updated_at", _now>> >>)]
                /\ ret' = [kind |-> "Task", task |-> _row_to_task(tasks'[task_id])]
        /\ UNCHANGED <<subtasks, task_seq, subtask_seq, clock>>

update_task(task_id, title, is_done, reminder_datetime, note) ==
    update_task_call("update_task", task_id, title, is_done, reminder_datetime, note)

(***************************************************************************)
(* update_task in the two connections it opens: get_task reads the task   *)
(* in a connection of its own, and the UPDATE and the read-back run in a   *)
(* second one.  Between the two, ret.kind = "pending" and ret.task is the  *)
(* task that get_task returned.                                            *)
(***************************************************************************)
update_task_check(task_id, title, is_done, reminder_datetime, note) ==
    LET task == fetch_task(task_id)
        updates == task_updates(title, is_done, reminder_datetime, note)
    IN  /\ last' = [op |-> "update_task", task_id |-> task_id, title |-> title, is_done |-> is_done,
                    reminder_datetime |-> reminder_datetime, note |-> note]
        /\ ret' = (IF task = None THEN [kind |-> "None"]
                   ELSE IF updates = <<>> THEN [kind |-> "Task", task |-> task[1]]
                   ELSE [kind |-> "pending", task |-> task[1]])
        /\ UNCHANGED <<tasks, subtasks, task_seq, subtask_seq, clock>>

\* the UPDATE changes the row if it is still stored; the read-back of a
\* row that is gone gives None, on which _row_to_task raises TypeError
update_task_write ==
    LET updates == task_updates(last.title, last.is_done, last.reminder_datetime, last.note)
    IN  /\ last.op = "update_task"
        /\ ret.kind = "pending"
        /\ IF last.task_id \in DOMAIN tasks
           THEN /\ tasks' = [tasks EXCEPT ![last.task_id] =
                                ApplySet(@, updates \o << <<"updated_at", _now>> >>)]
                /\ ret' = [kind |-> "Task", task |-> _row_to_task(tasks'[last.task_id])]
           ELSE /\ tasks' = tasks
                /\ ret' = [kind |-> "raised"]
        /\ UNCHANGED <<subtasks, task_seq, subtask_seq, clock, last>>

\* delete_task called by another process on the same database file: the
\* rows go, and the call and the result this process holds stay
other_delete_task(task_id) ==
    /\ tasks' = DeleteRows(tasks, {task_id})
    /\ subtasks' = DeleteRows(subtasks, {s \in DOMAIN subtasks : subtasks[s].task_id = task_id})
    /\ UNCHANGED <<task_seq, subtask_seq, clock, last, ret>>

\* TaskDetail.save_title without the test for an empty title
save_title_unchecked(task_id, entry) ==
    update_task_call("save_title", task_id, Some(strip(entry)), None, None, None)

\* TaskDetail.save_title: the detail window of task_id stores the text of
\* its title entry, trimmed, unless nothing is left of it
save_title(task_id, entry) ==
    LET title == strip(entry)
    IN  IF title = <<>>
        THEN /\ last' = [op |-> "save_title", task_id |-> task_id, title |-> None,
                         is_done |-> None, reminder_datetime |-> None, note |-> None]
             /\ ret' = [kind |-> "None"]
             /\ UNCHANGED <<tasks, subtasks, task_seq, subtask_seq, clock>>
        ELSE update_task_call("save_title", task_id, Some(title), None, None, None)

\* TaskDetail.clear_reminder: the detail window asks for the reminder to be removed
clear_reminder(task_id) ==
    update_task_call("clear_reminder", task_id, None, None, None, None)

\* DELETE with the foreign keys not enforced: the subtasks stay
delete_task_no_cascade(task_id) ==
    /\ tasks' = DeleteRows(tasks, {task_id})
    /\ ret' = [kind |-> "bool", flag |-> task_id \in DOMAIN tasks]
    /\ last' = [op |-> "delete_task", task_id |-> task_id,
                owned |-> Cardinality({s \in DOMAIN subtasks : subtasks[s].task_id = task_id})]
    /\ UNCHANGED <<subtasks, task_seq, subtask_seq, clock>>

\* DELETE with foreign_keys = ON: the subtasks of the task go with it
delete_task(task_id) ==
    /\ tasks' = DeleteRows(tasks, {task_id})
    /\ subtasks' = DeleteRows(subtasks, {s \in DOMAIN subtasks : subtasks[s].task_id = task_id})
    /\ ret' = [kind |-> "bool", flag |-> task_id \in DOMAIN tasks]
    /\ last' = [op |-> "delete_task", task_id |-> task_id,
                owned |-> Cardinality({s \in DOMAIN subtasks : subtasks[s].task_id = task_id})]
    /\ UNCHANGED <<task_seq, subtask_seq, clock>>

\* create_subtask without the get_task check, on a connection that does not
\* enforce the foreign key
create_subtask_unchecked(task_id, title) ==
    LET created_at == _now
        subtask_id == subtask_seq + 1
        row == [id |-> subtask_id, task_id |-> task_id, title |-> title, is_done |-> 0,
                created_at |-> created_at, updated_at |-> created_at]
    IN  /\ last' = [op |-> "create_subtask", task_id |-> task_id, title |-> title]
        /\ subtask_seq < MaxSubtasks
        /\ subtasks' = InsertRow(subtasks, row)
        /\ subtask_seq' = subtask_id
        /\ ret' = [kind |-> "Subtask", subtask |-> _row_to_subtask(subtasks'[subtask_id])]
        /\ UNCHANGED <<tasks, task_seq, clock>>

create_subtask(task_id, title) ==
    LET created_at == _now
        subtask_id == subtask_seq + 1
        row == [id |-> subtask_id, task_id |-> task_id, title |-> title, is_done |-> 0,
                created_at |-> created_at, updated_at |-> created_at]
    IN  /\ last' = [op |-> "create_subtask", task_id |-> task_id, title |-> title]
        /\ IF fetch_task(task_id) = None
           THEN /\ ret' = [kind |-> "None"]
                /\ UNCHANGED <<subtasks, subtask_seq>>
           ELSE /\ subtask_seq < MaxSubtasks
                /\ subtasks' = InsertRow(subtasks, row)
                /\ subtask_seq' = subtask_id
                /\ ret' = [kind |-> "Subtask", subtask |-> _row_to_subtask(subtasks'[subtask_id])]
        /\ UNCHANGED <<tasks, task_seq, clock>>

\* create_subtask when the read-back SELECT after the INSERT raises
create_subtask_interrupted(task_id, title) ==
    LET created_at == _now
        subtask_id == subtask_seq + 1
        row == [id |-> subtask_id, task_id |-> task_id, title |-> title, is_done |-> 0,
                created_at |-> created_at, updated_at |-> created_at]
    IN  /\ last' = [op |-> "create_subtask", task_id |-> task_id, title |-> title]
        /\ IF fetch_task(task_id) = None
           THEN /\ ret' = [kind |-> "None"]
                /\ UNCHANGED <<subtasks, subtask_seq>>
           ELSE /\ subtask_seq < MaxSubtasks
                /\ subtasks' = get_conn(subtasks, InsertRow(subtasks, row), TRUE)
                /\ subtask_seq' = get_conn(subtask_seq, subtask_id, TRUE)
                /\ ret' = [kind |-> "raised"]
        /\ UNCHANGED <<tasks, task_seq, clock>>

\* create_subtask up to the end of its get_task connection
create_subtask_check(task_id, title) ==
    /\ last' = [op |-> "create_subtask", task_id |-> task_id, title |-> title]
    /\ ret' = (IF fetch_task(task_id) = None THEN [kind |-> "None"]
               ELSE [kind |-> "pending", task |-> fetch_task(task_id)[1]])
    /\ UNCHANGED <<tasks, subtasks, task_seq, subtask_seq, clock>>

\* the INSERT and the read-back in the second connection; with
\* foreign_keys = ON the INSERT of a subtask whose task is gone raises
\* IntegrityError and stores nothing
create_subtask_write ==
    LET created_at == _now
        subtask_id == subtask_seq + 1
        row == [id |-> subtask_id, task_id |-> last.task_id, title |-> last.title, is_done |-> 0,
                created_at |-> created_at, updated_at |-> created_at]
    IN  /\ last.op = "create_subtask"
        /\ ret.kind = "pending"
        /\ IF last.task_id \in DOMAIN tasks
           THEN /\ subtask_seq < MaxSubtasks
                /\ subtasks' = InsertRow(subtasks, row)
                /\ subtask_seq' = subtask_id
                /\ ret' = [kind |-> "Subtask", subtask |-> _row_to_subtask(subtasks'[subtask_id])]
           ELSE /\ ret' = [kind |-> "raised"]
                /\ UNCHANGED <<subtasks, subtask_seq>>
        /\ UNCHANGED <<tasks, task_seq, clock, last>>

\* list_subtasks with ORDER BY created_at DESC
list_subtasks_newest_first(task_id) ==
    LET ids == {s \in DOMAIN subtasks : subtasks[s].task_id = task_id}
        order == OrderByDesc(ids, [s \in ids |-> subtasks[s].created_at])
    IN  /\ ret' = [kind |-> "list", rows |-> [i \in 1..Len(order) |-> _row_to_subtask(subtasks[order[i]])]]
        /\ last' = [op |-> "list_subtasks", task_id |-> task_id]
        /\ UNCHANGED <<tasks, subtasks, task_seq, subtask_seq, clock>>

list_subtasks(task_id) ==
    LET ids == {s \in DOMAIN subtasks : subtasks[s].task_id = task_id}
        order == OrderByAsc(ids, [s \in ids |-> subtasks[s].created_at])
    IN  /\ ret' = [kind |-> "list", rows |-> [i \in 1..Len(order) |-> _row_to_subtask(subtasks[order[i]])]]
        /\ last' = [op |-> "list_subtasks", task_id |-> task_id]
        /\ UNCHANGED <<tasks, subtasks, task_seq, subtask_seq, clock>>

\* update_subtask that writes is_done whether or not it was passed
update_subtask_always_flag(subtask_id, title, is_done) ==
    LET updates ==
            (IF title # None THEN << <<"title", title[1]>> >> ELSE <<>>)
            \o << <<"is_done", IF is_done # None /\ is_done[1] THEN 1 ELSE 0>> >>
    IN  /\ last' = [op |-> "update_subtask", subtask_id |-> subtask_id,
                    title |-> title, is_done |-> is_done]
        /\ IF subtask_id \notin DOMAIN subtasks
           THEN /\ ret' = [kind |-> "None"]
                /\ subtasks' = subtasks
           ELSE /\ subtasks' = [subtasks EXCEPT ![subtask_id] =
                                   ApplySet(@, updates \o << <<"updated_at", _now>> >>)]
                /\ ret' = [kind |-> "Subtask", subtask |-> _row_to_subtask(subtasks'[subtask_id])]
        /\ UNCHANGED <<tasks, task_seq, subtask_seq, clock>>

\* update_subtask that writes the time of the update into created_at
update_subtask_stamping_created(subtask_id, title, is_done) ==
    LET updates ==
            (IF title # None THEN << <<"title", title[1]>> >> ELSE <<>>)
            \o (IF is_done # None THEN << <<"is_done", IF is_done[1] THEN 1 ELSE 0>> >> ELSE <<>>)
    IN  /\ last' = [op |-> "update_subtask", subtask_id |-> subtask_id,
                    title |-> title, is_done |-> is_done]
        /\ IF subtask_id \notin DOMAIN subtasks
           THEN /\ ret' = [kind |-> "None"]
                /\ subtasks' = subtasks
           ELSE IF updates = <<>>
           THEN /\ ret' = [kind |-> "Subtask", subtask |-> _row_to_subtask(subtasks[subtask_id])]
                /\ subtasks' = subtasks
           ELSE /\ subtasks' = [subtasks EXCEPT ![subtask_id] =
                                   ApplySet(@, updates \o << <<"created_at", _now>> >>)]
                /\ ret' = [kind |-> "Subtask", subtask |-> _row_to_subtask(subtasks'[subtask_id])]
        /\ UNCHANGED <<tasks, task_seq, subtask_seq, clock>>

update_subtask(subtask_id, title, is_done) ==
    LET updates ==
            (IF title # None THEN << <<"title", title[1]>> >> ELSE <<>>)
            \o (IF is_done # None THEN << <<"is_done", IF is_done[1] THEN 1 ELSE 0>> >> ELSE <<>>)
    IN  /\ last' = [op |-> "update_subtask", subtask_id |-> subtask_id,
                    title |-> title, is_done |-> is_done]
        /\ IF subtask_id \notin DOMAIN subtasks
           THEN /\ ret' = [kind |-> "None"]
                /\ subtasks' = subtasks
           ELSE IF updates = <<>>
           THEN /\ ret' = [kind |-> "Subtask", subtask |-> _row_to_subtask(subtasks[subtask_id])]
                /\ subtasks' = subtasks
           ELSE /\ subtasks' = [subtasks EXCEPT ![subtask_id] =
                                   ApplySet(@, updates \o << <<"updated_at", _now>> >>)]
                /\ ret' = [kind |-> "Subtask", subtask |-> _row_to_subtask(subtasks'[subtask_id])]
        /\ UNCHANGED <<tasks, task_seq, subtask_seq, clock>>

\* delete_subtask that reports success whether or not a row was deleted
delete_subtask_always_true(subtask_id) ==
    /\ subtasks' = DeleteRows(subtasks, {subtask_id})
    /\ ret' = [kind |-> "bool", flag |-> TRUE]
    /\ last' = [op |-> "delete_subtask", subtask_id |-> subtask_id]
    /\ UNCHANGED <<tasks, task_seq, subtask_seq, clock>>

delete_subtask(subtask_id) ==
    /\ subtasks' = DeleteRows(subtasks, {subtask_id})
    /\ ret' = [kind |-> "bool", flag |-> subtask_id \in DOMAIN subtasks]
    /\ last' = [op |-> "delete_subtask", subtask_id |-> subtask_id]
    /\ UNCHANGED <<tasks, task_seq, subtask_seq, clock>>

\* subtask_progress whose second COUNT lacks the task_id condition
subtask_progress_all_done(task_id) ==
    LET total == Cardinality({s \in DOMAIN subtasks : subtasks[s].task_id = task_id})
        completed == Cardinality({s \in DOMAIN subtasks : subtasks[s].is_done = 1})
    IN  /\ ret' = [kind |-> "progress", completed |-> completed, total |-> total]
        /\ last' = [op |-> "subtask_progress", task_id |-> task_id]
        /\ UNCHANGED <<tasks, subtasks, task_seq, subtask_seq, clock>>

subtask_progress(task_id) ==
    LET total == Cardinality({s \in DOMAIN subtasks : subtasks[s].task_id = task_id})
        completed == Cardinality({s \in DOMAIN subtasks :
                                     subtasks[s].task_id = task_id /\ subtasks[s].is_done = 1})
    IN  /\ ret' = [kind |-> "progress", completed |-> completed, total |-> total]
        /\ last' = [op |-> "subtask_progress", task_id |-> task_id]
        /\ UNCHANGED <<tasks, subtasks, task_seq, subtask_seq, clock>>

\* the SELECT of due_reminders with < in place of <=
due_rows_strict(moment) ==
    LET ids == {i \in DOMAIN tasks :
                   /\ tasks[i].reminder_datetime # NULL
                   /\ tasks[i].is_done = 0
                   /\ TextLt(tasks[i].reminder_datetime[1], isoformat(moment))}
    IN  OrderByAsc(ids, [i \in ids |-> tasks[i].reminder_datetime[1]])

\* the ids due_reminders selects, in the order of the SELECT
due_rows(moment) ==
    LET ids == {i \in DOMAIN tasks :
                   /\ tasks[i].reminder_datetime # NULL
                   /\ tasks[i].is_done = 0
                   /\ TextLeq(tasks[i].reminder_datetime[1], isoformat(moment))}
    IN  OrderByAsc(ids, [i \in ids |-> tasks[i].reminder_datetime[1]])

\* due_reminders that acknowledges what it returns by clearing the reminders
due_reminders_acknowledging(now) ==
    LET moment == IF now # None THEN now[1] ELSE clock
        order == due_rows(moment)
        due == {order[i] : i \in 1..Len(order)}
    IN  /\ ret' = [kind |-> "list", rows |-> [i \in 1..Len(order) |-> _row_to_task(tasks[order[i]])]]
        /\ last' = [op |-> "due_reminders", now |-> now]
        /\ tasks' = [i \in DOMAIN tasks |->
                        IF i \in due THEN [tasks[i] EXCEPT !.reminder_datetime = NULL] ELSE tasks[i]]
        /\ UNCHANGED <<subtasks, task_seq, subtask_seq, clock>>

due_reminders(now) ==
    LET moment == IF now # None THEN now[1] ELSE clock
        order == due_rows(moment)
    IN  /\ ret' = [kind |-> "list", rows |-> [i \in 1..Len(order) |-> _row_to_task(tasks[order[i]])]]
        /\ last' = [op |-> "due_reminders", now |-> now]
        /\ UNCHANGED <<tasks, subtasks, task_seq, subtask_seq, clock>>

\* TaskApp._check_reminders, up to its first notification: the poll reads
\* the clock and asks for the due tasks. With none due the handler is over;
\* otherwise the first notification opens and the handler waits in it.
\* ret holds the tasks read (rows), how many of them have been notified
\* and followed up (shown), and what the follow-up calls returned (updated)
_check_reminders ==
    LET order == due_rows(clock)
        reminders == [i \in 1..Len(order) |-> _row_to_task(tasks[order[i]])]
    IN  /\ ret' = [kind |-> IF reminders = <<>> THEN "list" ELSE "pending",
                   rows |-> reminders, shown |-> 0, updated |-> <<>>]
        /\ last' = [op |-> "_check_reminders"]
        /\ UNCHANGED <<tasks, subtasks, task_seq, subtask_seq, clock>>

\* TaskApp._check_reminders while a notification is open: the wall clock
\* advances and the handler keeps what it has read
showinfo_wait ==
    /\ last.op = "_check_reminders"
    /\ ret.kind = "pending"
    /\ clock < MaxTime
    /\ clock' = clock + 1
    /\ UNCHANGED <<tasks, subtasks, task_seq, subtask_seq, last, ret>>

\* TaskApp._check_reminders, one turn of its loop: the notification of the
\* next task read is dismissed and the handler calls
\* update_task(task.id, reminder_datetime=None) on the rows as they are
\* stored by then: None for a task that is gone, and otherwise an empty
\* SET list, so the task is returned without a write. After the last task
\* the handler is over
_check_reminders_notify ==
    /\ last.op = "_check_reminders"
    /\ ret.kind = "pending"
    /\ LET k == ret.shown + 1
           task_id == ret.rows[k].id
           task == fetch_task(task_id)
           updates == task_updates(None, None, None, None)
           written == IF task # None /\ updates # <<>>
                      THEN [tasks EXCEPT ![task_id] =
                               ApplySet(@, updates \o << <<"updated_at", _now>> >>)]
                      ELSE tasks
           result == IF task_id \in DOMAIN written
                     THEN [kind |-> "Task", task |-> _row_to_task(written[task_id])]
                     ELSE [kind |-> "None"]
       IN  /\ tasks' = written
           /\ ret' = [kind |-> IF k = Len(ret.rows) THEN "list" ELSE "pending",
                      rows |-> ret.rows, shown |-> k,
                      updated |-> Append(ret.updated, result)]
    /\ UNCHANGED <<subtasks, task_seq, subtask_seq, clock, last>>

(***************************************************************************)
(* title LIKE '%search%': % matches any run of characters, _ any one       *)
(* character, and ASCII letters match regardless of case.                  *)
(***************************************************************************)
Fold(c) == IF c >= 97 /\ c <= 122 THEN c - 32 ELSE c
RECURSIVE Like(_, _)
Like(pattern, text) ==
    IF pattern = <<>> THEN text = <<>>
    ELSE IF Head(pattern) = 37
    THEN Like(Tail(pattern), text) \/ (text # <<>> /\ Like(pattern, Tail(text)))
    ELSE /\ text # <<>>
         /\ (Head(pattern) = 95 \/ Fold(Head(pattern)) = Fold(Head(text)))
         /\ Like(Tail(pattern), Tail(text))

\* the ids list_tasks selects, in the order of the SELECT
list_rows(search, has_reminder, is_done) ==
    LET ids == {i \in DOMAIN tasks :
                   /\ (search # None /\ search[1] # <<>>)
                        => Like(<<37>> \o search[1] \o <<37>>, tasks[i].title)
                   /\ has_reminder # None
                        => IF has_reminder[1] THEN tasks[i].reminder_datetime # NULL
                           ELSE tasks[i].reminder_datetime = NULL
                   /\ is_done # None => tasks[i].is_done = (IF is_done[1] THEN 1 ELSE 0)}
    IN  OrderByDesc(ids, [i \in ids |-> tasks[i].created_at])

list_tasks(search, has_reminder, is_done) ==
    LET order == list_rows(search, has_reminder, is_done)
    IN  /\ ret' = [kind |-> "list", rows |-> [i \in 1..Len(order) |-> _row_to_task(tasks[order[i]])]]
        /\ last' = [op |-> "list_tasks", search |-> search,
                    has_reminder |-> has_reminder, is_done |-> is_done]
        /\ UNCHANGED <<tasks, subtasks, task_seq, subtask_seq, clock>>

OptSubtaskTitle == {None} \cup {Some(t) : t \in SubtaskTitles}
\* titles the storage layer is handed as they are: "", " a"
RawTitles == {<<>>, <<32, 97>>}
\* the argument lists update_task is called with: title, is_done,
\* reminder_datetime, note
UpdateCalls ==
    {<<Some(<<>>), None, None, Some(n)>> : n \in Notes}
    \cup {<<None, Some(TRUE), None, None>>, <<None, None, Some(MaxTime), None>>}
\* the tasks update_task is called on, and the tasks that are given
\* subtasks where few owners are enough: the first and the last identifier
UpdatedIds == {1, MaxTasks}
\* texts typed into a title entry: " ", " a", "b ", a no-break space, and
\* "a" between a no-break space and an ideographic space
Entries == {<<32>>, <<32, 97>>, <<98, 32>>, <<160>>, <<160, 97, 12288>>}
\* titles and search texts of list_tasks: "a", "B"; "", "a", "b", "_"
ListTitles == {<<97>>, <<66>>}
Searches == {None, Some(<<>>), Some(<<97>>), Some(<<98>>), Some(<<95>>)}
\* titles update_subtask renames a subtask to: none, "t"
OptNewSubtaskTitle == {None, Some(<<116>>)}
\* the subtasks update_subtask is called on: the first and the last identifier
UpdatedSubtaskIds == {1, MaxSubtasks}
OptNote == {None} \cup {Some(n) : n \in Notes}

\* tasks and their reminders, at one reading of the clock
NextReminders ==
    \/ \E title \in Titles, r \in OptTime : create_task(title, r, None)
    \/ \E id \in TaskIds, d \in OptBool, r \in OptTime : update_task(id, None, d, r, None)
    \/ \E id \in TaskIds : clear_reminder(id)
    \/ \E id \in TaskIds : delete_task(id)
    \/ \E now \in OptTime : due_reminders(now)

\* tasks and their timestamps, while the clock advances
NextClock ==
    \/ Tick
    \/ \E title \in Titles, r \in {None, Some(MaxTime)} : create_task(title, r, None)
    \/ \E id \in TaskIds, d \in OptBool : update_task(id, None, d, None, None)
    \/ \E id \in TaskIds : delete_task(id)
    \/ list_tasks(None, None, None)

\* subtasks and the tasks that own them
NextSub ==
    \/ \E title \in Titles : create_task(title, None, None)
    \/ \E id \in TaskIds : delete_task(id)
    \/ \E id \in TaskIds, title \in SubtaskTitles : create_subtask(id, title)
    \/ \E id \in SubtaskIds, title \in OptSubtaskTitle, d \in OptBool : update_subtask(id, title, d)
    \/ \E id \in SubtaskIds : delete_subtask(id)
    \/ \E id \in TaskIds : subtask_progress(id)

\* tasks written and read back, with every argument of create_task
NextRound ==
    \/ Tick
    \/ \E title \in RawTitles, r \in {None, Some(MaxTime)}, note \in OptNote :
          create_task(title, r, note)
    \/ \E id \in TaskIds : get_task(id)
    \/ \E id \in TaskIds : delete_task(id)

\* tasks, their subtasks and update_task with every one of its arguments
NextFrame ==
    \/ Tick
    \/ \E title \in Titles : create_task(title, None, None)
    \/ \E title \in SubtaskTitles : create_subtask(1, title)
    \/ \E id \in UpdatedIds, call \in UpdateCalls :
          update_task(id, call[1], call[2], call[3], call[4])

\* calls on identifiers of rows that were deleted or never inserted
NextMissing ==
    \/ \E title \in Titles : create_task(title, None, None)
    \/ \E id \in TaskIds : delete_task(id)
    \/ \E id \in TaskIds, title \in SubtaskTitles : create_subtask(id, title)
    \/ \E id \in SubtaskIds : delete_subtask(id)
    \/ \E id \in TaskIds : get_task(id)
    \/ \E id \in TaskIds : update_task(id, None, Some(TRUE), None, None)
    \/ \E id \in SubtaskIds : update_subtask(id, None, Some(TRUE))

\* tasks and subtasks written at different readings of the clock
NextStamps ==
    \/ Tick
    \/ \E title \in Titles : create_task(title, None, None)
    \/ \E id \in UpdatedIds : update_task(id, None, Some(TRUE), None, None)
    \/ \E title \in SubtaskTitles : create_subtask(1, title)
    \/ \E id \in SubtaskIds : update_subtask(id, None, Some(TRUE))

\* titles stored through the windows and through the storage functions
NextTitles ==
    \/ \E entry \in Entries : add_task(entry)
    \/ \E id \in TaskIds, entry \in Entries : save_title(id, entry)
    \/ \E title \in RawTitles : create_task(title, None, None)
    \/ \E id \in TaskIds, title \in RawTitles : update_task(id, Some(title), None, None, None)

\* tasks listed with every combination of the filters of list_tasks
NextList ==
    \/ \E title \in ListTitles, r \in {None, Some(MaxTime)} : create_task(title, r, None)
    \/ \E id \in TaskIds : update_task(id, None, Some(TRUE), None, None)
    \/ \E search \in Searches, has_reminder \in OptBool, is_done \in OptBool :
          list_tasks(search, has_reminder, is_done)

\* the subtasks of a task, created at different readings of the clock
NextSteps ==
    \/ Tick
    \/ \E title \in Titles : create_task(title, None, None)
    \/ \E id \in TaskIds, title \in SubtaskTitles : create_subtask(id, title)
    \/ \E id \in SubtaskIds : delete_subtask(id)
    \/ \E id \in TaskIds : list_subtasks(id)

\* the program started again on the database it has written
NextRestart ==
    \/ init_db
    \/ \E title \in Titles, r \in {None, Some(MaxTime)} : create_task(title, r, None)
    \/ \E id \in TaskIds : delete_task(id)
    \/ \E id \in TaskIds, title \in SubtaskTitles : create_subtask(id, title)
    \/ \E id \in SubtaskIds : update_subtask(id, None, Some(TRUE))

\* the reminder poll of the main window, next to another process that
\* deletes tasks at any moment: while a notification is open, in which the
\* handler waits and the clock advances, and between the two connections
\* of update_task. This process runs one call at a time, the dialog being
\* modal and the next poll being scheduled at the end of the handler
NextPoll ==
    \/ ret.kind # "pending" /\ Tick
    \/ showinfo_wait
    \/ ret.kind # "pending" /\ \E title \in Titles, r \in OptTime : create_task(title, r, None)
    \/ ret.kind # "pending" /\ \E id \in TaskIds : update_task_check(id, None, Some(TRUE), None, None)
    \/ update_task_write
    \/ ret.kind # "pending" /\ _check_reminders
    \/ _check_reminders_notify
    \/ ret.kind # "pending" /\ due_reminders(None)
    \/ \E id \in TaskIds : other_delete_task(id)

\* creations that succeed and creations whose read-back fails
NextFault ==
    \/ \E title \in Titles : create_task(title, None, None)
    \/ \E title \in Titles, r \in {None, Some(MaxTime)} : create_task_interrupted(title, r, None)
    \/ \E id \in TaskIds, title \in SubtaskTitles : create_subtask(id, title)
    \/ \E id \in TaskIds, title \in SubtaskTitles : create_subtask_interrupted(id, title)
    \/ \E id \in TaskIds : delete_task(id)
    \/ \E id \in SubtaskIds : delete_subtask(id)

\* this process's calls, each run to its end before the next begins, and
\* another process that deletes tasks at any moment
NextRace ==
    \/ ret.kind # "pending" /\ \E title \in Titles : create_task(title, Some(MaxTime), None)
    \/ ret.kind # "pending" /\ \E id \in TaskIds : update_task_check(id, None, Some(TRUE), None, None)
    \/ update_task_write
    \/ ret.kind # "pending" /\ \E id \in TaskIds, title \in SubtaskTitles : create_subtask_check(id, title)
    \/ create_subtask_write
    \/ \E id \in TaskIds : other_delete_task(id)

\* subtasks created, renamed, ticked off and deleted while the clock advances
NextSubFrame ==
    \/ Tick
    \/ \E title \in Titles : create_task(title, None, None)
    \/ \E id \in UpdatedIds, title \in SubtaskTitles : create_subtask(id, title)
    \/ \E id \in UpdatedSubtaskIds, title \in OptNewSubtaskTitle, d \in {None, Some(TRUE)} :
          update_subtask(id, title, d)
    \/ \E id \in SubtaskIds : delete_subtask(id)

Spec == Init /\ [][NextReminders]_vars
SpecSubFrame == Init /\ [][NextSubFrame]_vars
SpecRace == Init /\ [][NextRace]_vars
SpecFault == Init /\ [][NextFault]_vars
SpecPoll == Init /\ [][NextPoll]_vars
SpecRestart == Init /\ [][NextRestart]_vars
SpecSteps == Init /\ [][NextSteps]_vars
SpecList == Init /\ [][NextList]_vars
SpecTitles == Init /\ [][NextTitles]_vars
SpecStamps == Init /\ [][NextStamps]_vars
SpecMissing == Init /\ [][NextMissing]_vars
SpecFrame == Init /\ [][NextFrame]_vars
SpecRound == Init /\ [][NextRound]_vars
SpecClock == Init /\ [][NextClock]_vars
SpecSub == Init /\ [][NextSub]_vars

(***************************************************************************)
(* Properties.                                                             *)
(***************************************************************************)
\* the rows a list-returning call returned, as a set of ids
ReturnedIds == {ret.rows[k].id : k \in 1..Len(ret.rows)}
\* the instant due_reminders compared against: its argument, or the clock
LastMoment == IF last.now # None THEN last.now[1] ELSE clock

\* C1: after update_task(id, is_done=True, ...) on an existing task the
\* stored reminder is absent, whatever reminder was passed in the call.
C1_DoneClearsReminder ==
    (last.op = "update_task" /\ last.is_done = Some(TRUE) /\ ret.kind = "Task")
        => tasks[last.task_id].reminder_datetime = NULL

\* C2: no stored task is done and has a reminder.
C2_NoDoneTaskWithReminder ==
    \A i \in DOMAIN tasks : ~(tasks[i].is_done = 1 /\ tasks[i].reminder_datetime # NULL)

\* C3: update_task tells three reminder requests apart: unspecified leaves
\* the stored reminder as it was, a timestamp stores that timestamp, and a
\* request to clear a reminder leaves the task without one.
C3_ThreeStateReminder ==
    [][(last'.op \in {"update_task", "clear_reminder"} /\ last'.task_id \in DOMAIN tasks) =>
          /\ (last'.op = "update_task" /\ last'.reminder_datetime = None
                /\ last'.is_done # Some(TRUE))
               => tasks'[last'.task_id].reminder_datetime = tasks[last'.task_id].reminder_datetime
          /\ (last'.op = "update_task" /\ last'.reminder_datetime # None)
               => _row_to_task(tasks'[last'.task_id]).reminder_datetime = last'.reminder_datetime
          /\ (last'.op = "clear_reminder" /\ tasks[last'.task_id].reminder_datetime # NULL)
               => tasks'[last'.task_id].reminder_datetime = NULL]_vars

\* C4: due_reminders(now) returns exactly the stored tasks that have a
\* reminder, are not done and whose reminder instant is at or before now,
\* each once and as stored, in ascending order of reminder instant.
C4_DueRemindersExact ==
    last.op = "due_reminders" =>
        LET due == {i \in DOMAIN tasks :
                       /\ _row_to_task(tasks[i]).reminder_datetime # None
                       /\ ~_row_to_task(tasks[i]).is_done
                       /\ _row_to_task(tasks[i]).reminder_datetime[1] <= LastMoment}
        IN  /\ ret.kind = "list"
            /\ ReturnedIds = due
            /\ Len(ret.rows) = Cardinality(due)
            /\ \A k \in 1..Len(ret.rows) : ret.rows[k] = _row_to_task(tasks[ret.rows[k].id])
            /\ \A j, k \in 1..Len(ret.rows) :
                  j < k => ret.rows[j].reminder_datetime[1] <= ret.rows[k].reminder_datetime[1]

\* C4 witness: one task was returned while another stored task, not done,
\* has its reminder after now.
C4_Witness ==
    /\ last.op = "due_reminders"
    /\ Len(ret.rows) = 1
    /\ \E i \in DOMAIN tasks :
          /\ tasks[i].is_done = 0
          /\ tasks[i].reminder_datetime # NULL
          /\ fromisoformat(tasks[i].reminder_datetime[1]) > LastMoment

\* C5: every stored subtask belongs to a stored task, and right after
\* delete_task(id) no subtask of id is stored.
C5_NoOrphanSubtask ==
    /\ \A s \in DOMAIN subtasks : subtasks[s].task_id \in DOMAIN tasks
    /\ last.op = "delete_task" =>
          {s \in DOMAIN subtasks : subtasks[s].task_id = last.task_id} = {}

\* C5 witness: delete_task removed a task that owned subtasks.
C5_Witness ==
    /\ last.op = "delete_task"
    /\ ret.flag
    /\ last.owned > 0

\* C6: list_tasks returns the tasks newest first: a later creation instant
\* comes first, and of two tasks created at the same instant the one with
\* the larger id comes first.
C6_NewestFirst ==
    last.op = "list_tasks" =>
        \A j, k \in 1..Len(ret.rows) :
            j < k => \/ ret.rows[j].created_at > ret.rows[k].created_at
                     \/ /\ ret.rows[j].created_at = ret.rows[k].created_at
                        /\ ret.rows[j].id > ret.rows[k].id

\* C7: subtask_progress(task_id) returns the number of stored subtasks of
\* the task that are done and the number of stored subtasks of the task;
\* it is (0, 0) when the task has none or does not exist, and the first
\* number never exceeds the second.
C7_ProgressCounts ==
    last.op = "subtask_progress" =>
        LET mine == {s \in DOMAIN subtasks : _row_to_subtask(subtasks[s]).task_id = last.task_id}
            finished == {s \in mine : _row_to_subtask(subtasks[s]).is_done}
        IN  /\ ret.kind = "progress"
            /\ ret.completed = Cardinality(finished)
            /\ ret.total = Cardinality(mine)
            /\ ret.completed <= ret.total
            /\ (mine = {} \/ last.task_id \notin DOMAIN tasks) => (ret.completed = 0 /\ ret.total = 0)

\* C7 witness: the progress of a task with one done subtask out of two.
C7_Witness ==
    /\ last.op = "subtask_progress"
    /\ ret.completed = 1
    /\ ret.total = 2

\* C8: update_task on an existing task with no field supplied returns the
\* current record and leaves the stored tasks, updated_at included, as
\* they were.
C8_NoFieldsNoChange ==
    [][(/\ last'.op = "update_task"
        /\ last'.title = None /\ last'.is_done = None
        /\ last'.reminder_datetime = None /\ last'.note = None
        /\ last'.task_id \in DOMAIN tasks)
       => /\ tasks' = tasks
          /\ ret' = [kind |-> "Task", task |-> _row_to_task(tasks[last'.task_id])]]_vars

\* C8 witness: update_task returned a task without a field supplied, at a
\* clock instant later than the task's updated_at.
C8_Witness ==
    /\ last.op = "update_task"
    /\ last.title = None /\ last.is_done = None
    /\ last.reminder_datetime = None /\ last.note = None
    /\ ret.kind = "Task"
    /\ ret.task.updated_at < clock

\* C9: create_subtask for a task id that names no stored task returns None
\* and leaves the stored subtasks and tasks as they were.
C9_CreateSubtaskMissingTask ==
    [][(last'.op = "create_subtask" /\ last'.task_id \notin DOMAIN tasks)
       => /\ ret' = [kind |-> "None"]
          /\ subtasks' = subtasks
          /\ subtask_seq' = subtask_seq
          /\ tasks' = tasks]_vars

\* C9 witness: create_subtask returned None for a missing task while a
\* further subtask row could still be inserted.
C9_Witness ==
    /\ last.op = "create_subtask"
    /\ last.task_id \notin DOMAIN tasks
    /\ ret.kind = "None"
    /\ subtask_seq < MaxSubtasks
    /\ DOMAIN subtasks # {}

\* C10: due_reminders changes no stored row, and called again with the same
\* now right after itself it returns the same sequence.
C10_DueRemindersPure ==
    [][last'.op = "due_reminders"
       => /\ tasks' = tasks
          /\ subtasks' = subtasks
          /\ task_seq' = task_seq
          /\ subtask_seq' = subtask_seq
          /\ (last.op = "due_reminders" /\ last.now = last'.now) => ret' = ret]_vars

\* C10 witness: due_reminders returned a task.
C10_Witness ==
    /\ last.op = "due_reminders"
    /\ Len(ret.rows) > 0

\* C11: the record create_task returns has the title, reminder and note
\* that were supplied, the title unaltered, is not done and has created_at
\* equal to updated_at; a get_task on its id that follows returns an equal
\* record.
C11_CreateGetRoundTrip ==
    [][/\ last'.op = "create_task"
          => /\ ret'.kind = "Task"
             /\ ret'.task.title = last'.title
             /\ ret'.task.reminder_datetime = last'.reminder_datetime
             /\ ret'.task.note = last'.note
             /\ ~ret'.task.is_done
             /\ ret'.task.created_at = ret'.task.updated_at
       /\ (last.op = "create_task" /\ last'.op = "get_task" /\ last'.task_id = ret.task.id)
          => ret' = ret]_vars

\* C11 witness: get_task returned a task created at an instant with a
\* fractional second, with a title that starts with a space, a reminder
\* and a note.
C11_Witness ==
    /\ last.op = "get_task"
    /\ ret.kind = "Task"
    /\ ret.task.title = <<32, 97>>
    /\ ret.task.reminder_datetime = Some(MaxTime)
    /\ ret.task.note # None
    /\ ret.task.created_at = MaxTime
    /\ ret.task.created_at % TicksPerSec # 0

\* C12: update_task on a stored task leaves the task's id and created_at,
\* every field that was not supplied (the reminder too, unless is_done was
\* set true), every other task and every subtask as they were.
C12_UpdateTaskFrame ==
    [][(last'.op = "update_task" /\ last'.task_id \in DOMAIN tasks) =>
          LET before == tasks[last'.task_id]
              after == tasks'[last'.task_id]
          IN  /\ DOMAIN tasks' = DOMAIN tasks
              /\ \A j \in DOMAIN tasks \ {last'.task_id} : tasks'[j] = tasks[j]
              /\ subtasks' = subtasks
              /\ after.id = before.id
              /\ after.created_at = before.created_at
              /\ last'.title = None => after.title = before.title
              /\ last'.is_done = None => after.is_done = before.is_done
              /\ last'.note = None => after.note = before.note
              /\ (last'.reminder_datetime = None /\ last'.is_done # Some(TRUE))
                    => after.reminder_datetime = before.reminder_datetime]_vars

\* C12 witness: update_task, called without a title and without a note,
\* wrote a task later than its creation; the task keeps the title and the
\* note of an earlier update, and another task and a subtask are stored.
C12_Witness ==
    /\ last.op = "update_task"
    /\ ret.kind = "Task"
    /\ last.title = None /\ last.note = None
    /\ ret.task.title = <<>>
    /\ ret.task.note # None
    /\ ret.task.updated_at > ret.task.created_at
    /\ Cardinality(DOMAIN tasks) > 1
    /\ DOMAIN subtasks # {}

\* C13: get_task and update_task on an id that names no stored task, and
\* update_subtask on an id that names no stored subtask, return None and
\* leave the stored rows and the id counters as they were.
C13_MissingIdReturnsNone ==
    [][/\ (last'.op \in {"get_task", "update_task"} /\ last'.task_id \notin DOMAIN tasks)
          => /\ ret' = [kind |-> "None"]
             /\ UNCHANGED <<tasks, subtasks, task_seq, subtask_seq>>
       /\ (last'.op = "update_subtask" /\ last'.subtask_id \notin DOMAIN subtasks)
          => /\ ret' = [kind |-> "None"]
             /\ UNCHANGED <<tasks, subtasks, task_seq, subtask_seq>>]_vars

\* C13 witness: get_task returned None for the id of a deleted task while
\* a task with a smaller id and a subtask are stored.
C13_Witness ==
    /\ last.op = "get_task"
    /\ ret.kind = "None"
    /\ last.task_id <= task_seq
    /\ \E i \in DOMAIN tasks : i < last.task_id
    /\ DOMAIN subtasks # {}

\* C14: delete_task(id) and delete_subtask(id) return true exactly when a
\* row with that id was stored before the call; afterwards no row has
\* that id, and when they return false the stored rows are as they were.
C14_DeleteReturnsExisted ==
    [][/\ last'.op = "delete_task"
          => /\ ret' = [kind |-> "bool", flag |-> last'.task_id \in DOMAIN tasks]
             /\ last'.task_id \notin DOMAIN tasks'
             /\ ~ret'.flag => UNCHANGED <<tasks, subtasks, task_seq, subtask_seq>>
       /\ last'.op = "delete_subtask"
          => /\ ret' = [kind |-> "bool", flag |-> last'.subtask_id \in DOMAIN subtasks]
             /\ last'.subtask_id \notin DOMAIN subtasks'
             /\ ~ret'.flag => UNCHANGED <<tasks, subtasks, task_seq, subtask_seq>>]_vars

\* C14 witness: delete_subtask returned false for the id of a subtask that
\* was deleted before, while another subtask is stored.
C14_Witness ==
    /\ last.op = "delete_subtask"
    /\ ~ret.flag
    /\ last.subtask_id <= subtask_seq
    /\ DOMAIN subtasks # {}

\* C15: the id create_task assigns is greater than every id assigned
\* before, those of deleted tasks included, so no id is assigned twice;
\* each stored task is stored under its own id.
C15_TaskIdsNeverReused ==
    [][/\ last'.op = "create_task"
          => /\ ret'.task.id > task_seq
             /\ \A i \in DOMAIN tasks : ret'.task.id > i
             /\ DOMAIN tasks' = DOMAIN tasks \cup {ret'.task.id}
             /\ task_seq' = ret'.task.id
       /\ task_seq' >= task_seq
       /\ \A i \in DOMAIN tasks' : tasks'[i].id = i /\ i <= task_seq']_vars

\* C15 witness: create_task returned a task after the task with the
\* largest id assigned until then had been deleted.
C15_Witness ==
    /\ last.op = "create_task"
    /\ ret.task.id > 1
    /\ ret.task.id - 1 \notin DOMAIN tasks

\* C16: every stored task and every stored subtask has an updated_at that
\* is not earlier than its created_at.
C16_UpdatedNotBeforeCreated ==
    /\ \A i \in DOMAIN tasks :
          _row_to_task(tasks[i]).updated_at >= _row_to_task(tasks[i]).created_at
    /\ \A s \in DOMAIN subtasks :
          _row_to_subtask(subtasks[s]).updated_at >= _row_to_subtask(subtasks[s]).created_at

\* C16 witness: a task and a subtask are stored that were both updated
\* later than they were created.
C16_Witness ==
    /\ \E i \in DOMAIN tasks :
          _row_to_task(tasks[i]).updated_at > _row_to_task(tasks[i]).created_at
    /\ \E s \in DOMAIN subtasks :
          _row_to_subtask(subtasks[s]).updated_at > _row_to_subtask(subtasks[s]).created_at

\* C17: every stored task has a non-empty title.
C17_TitleNeverEmpty ==
    \A i \in DOMAIN tasks : tasks[i].title # <<>>

\* C17, amended: add_task and save_title store the entry text trimmed of
\* white space and store nothing when nothing is left of it, so a stored
\* title becomes empty only in a create_task or update_task that was
\* passed an empty title, which they store as given.
C17_EmptyTitleOnlyFromStorageCall ==
    [][/\ last'.op = "add_task"
          => IF strip(last'.entry) = <<>> THEN tasks' = tasks
             ELSE /\ DOMAIN tasks' = DOMAIN tasks \cup {task_seq'}
                  /\ task_seq' \notin DOMAIN tasks
                  /\ tasks'[task_seq'].title = strip(last'.entry)
       /\ (last'.op = "save_title" /\ last'.task_id \in DOMAIN tasks)
          => IF last'.title = None THEN tasks' = tasks
             ELSE /\ last'.title[1] # <<>>
                  /\ tasks'[last'.task_id].title = last'.title[1]
       /\ \A i \in DOMAIN tasks' :
             tasks'[i].title = <<>>
                => \/ i \in DOMAIN tasks /\ tasks[i].title = <<>>
                   \/ last'.op = "create_task" /\ last'.title = <<>>
                   \/ last'.op = "update_task" /\ last'.title = Some(<<>>)]_vars

\* C17 witness: save_title was asked to store an entry of white space only
\* and the task keeps the non-empty title it had.
C17_Witness ==
    /\ last.op = "save_title"
    /\ last.title = None
    /\ last.task_id \in DOMAIN tasks
    /\ tasks[last.task_id].title # <<>>

\* search occurs in text as a run of consecutive characters
Contains(text, search) ==
    \E k \in 0..(Len(text) - Len(search)) : SubSeq(text, k + 1, k + Len(search)) = search

\* C18: list_tasks(search, has_reminder, is_done) returns exactly the
\* stored tasks that pass every filter supplied: the title contains search
\* as a substring, a reminder is present or absent as has_reminder says,
\* and the completion flag equals is_done; a filter that is not supplied
\* excludes nothing, and each task is returned once and as stored.
C18_ListTasksFiltersExact ==
    last.op = "list_tasks" =>
        LET pass == {i \in DOMAIN tasks :
                        /\ last.search # None
                             => Contains(_row_to_task(tasks[i]).title, last.search[1])
                        /\ last.has_reminder # None
                             => (_row_to_task(tasks[i]).reminder_datetime # None) = last.has_reminder[1]
                        /\ last.is_done # None
                             => _row_to_task(tasks[i]).is_done = last.is_done[1]}
        IN  /\ ret.kind = "list"
            /\ ReturnedIds = pass
            /\ Len(ret.rows) = Cardinality(pass)
            /\ \A k \in 1..Len(ret.rows) : ret.rows[k] = _row_to_task(tasks[ret.rows[k].id])

\* C19: list_subtasks(task_id) returns exactly the stored subtasks whose
\* owner is task_id, each once and as stored, oldest first: creation
\* instants do not decrease along the list, and a subtask created earlier
\* (smaller id) comes before one created later.
C19_ListSubtasksOldestFirst ==
    last.op = "list_subtasks" =>
        LET mine == {s \in DOMAIN subtasks : _row_to_subtask(subtasks[s]).task_id = last.task_id}
        IN  /\ ret.kind = "list"
            /\ ReturnedIds = mine
            /\ Len(ret.rows) = Cardinality(mine)
            /\ \A k \in 1..Len(ret.rows) : ret.rows[k] = _row_to_subtask(subtasks[ret.rows[k].id])
            /\ \A j, k \in 1..Len(ret.rows) :
                  j < k => /\ ret.rows[j].created_at <= ret.rows[k].created_at
                           /\ ret.rows[j].id < ret.rows[k].id

\* C19 witness: list_subtasks returned two subtasks created at different
\* instants.
C19_Witness ==
    /\ last.op = "list_subtasks"
    /\ Len(ret.rows) = 2
    /\ ret.rows[1].created_at < ret.rows[2].created_at

\* C20: init_db called on storage that holds tasks and subtasks leaves
\* every stored row and both id counters as they were and returns
\* normally.
C20_InitDbIdempotent ==
    [][last'.op = "init_db"
       => /\ tasks' = tasks
          /\ subtasks' = subtasks
          /\ task_seq' = task_seq
          /\ subtask_seq' = subtask_seq
          /\ ret' = [kind |-> "None"]]_vars

\* C20 witness: init_db was called while a task with a reminder and a
\* done subtask were stored and the newest task had been deleted.
C20_Witness ==
    /\ last.op = "init_db"
    /\ \E i \in DOMAIN tasks : tasks[i].reminder_datetime # NULL
    /\ \E s \in DOMAIN subtasks : subtasks[s].is_done = 1
    /\ task_seq \notin DOMAIN tasks

\* C21: once _check_reminders has notified a due task and made its
\* update_task call for it, due_reminders no longer selects that task, so
\* a later poll does not notify it again.
C21_NotifiedAtMostOnce ==
    last.op = "_check_reminders" =>
        LET order == due_rows(clock)
        IN  \A k \in 1..ret.shown :
               ret.rows[k].id \notin {order[i] : i \in 1..Len(order)}

\* C22: an operation that raises after it has issued a write commits none
\* of its writes: the stored rows are as they were before the call.
C22_ErrorRollsBack ==
    [][ret'.kind = "raised"
       => /\ tasks' = tasks
          /\ subtasks' = subtasks]_vars

\* C23: when the task of an update_task or create_subtask call is deleted
\* between the call's existence check and its write, the call returns
\* None and writes nothing.
C23_CheckAndWriteAreOneUnit ==
    [][(ret.kind = "pending" /\ ret'.kind # "pending" /\ last.task_id \notin DOMAIN tasks)
       => /\ ret' = [kind |-> "None"]
          /\ tasks' = tasks
          /\ subtasks' = subtasks]_vars

\* C24: update_subtask on a stored subtask leaves every field that was
\* not supplied, every other subtask and every task as they were, and
\* with no field supplied it leaves the subtask, updated_at included, as
\* it was and returns it; under every operation a subtask that stays
\* stored keeps its id, its task_id and its created_at.
C24_UpdateSubtaskFrame ==
    [][/\ (last'.op = "update_subtask" /\ last'.subtask_id \in DOMAIN subtasks)
          => LET before == subtasks[last'.subtask_id]
                 after == subtasks'[last'.subtask_id]
             IN  /\ DOMAIN subtasks' = DOMAIN subtasks
                 /\ \A s \in DOMAIN subtasks \ {last'.subtask_id} : subtasks'[s] = subtasks[s]
                 /\ tasks' = tasks
                 /\ last'.title = None => after.title = before.title
                 /\ last'.is_done = None => after.is_done = before.is_done
                 /\ (last'.title = None /\ last'.is_done = None)
                       => /\ after = before
                          /\ ret' = [kind |-> "Subtask", subtask |-> _row_to_subtask(before)]
       /\ \A s \in DOMAIN subtasks \cap DOMAIN subtasks' :
             /\ subtasks'[s].id = subtasks[s].id
             /\ subtasks'[s].task_id = subtasks[s].task_id
             /\ subtasks'[s].created_at = subtasks[s].created_at]_vars

\* C24 witness: update_subtask, called with is_done only, wrote a subtask
\* later than its creation; the subtask keeps the title of an earlier
\* renaming, and another subtask is stored.
C24_Witness ==
    /\ last.op = "update_subtask"
    /\ ret.kind = "Subtask"
    /\ last.title = None /\ last.is_done # None
    /\ ret.subtask.title = <<116>>
    /\ ret.subtask.updated_at > ret.subtask.created_at
    /\ Cardinality(DOMAIN subtasks) > 1
====
